---- MODULE Spec2Model ----
(***************************************************************************)
(* Model of Step70_SlurpPayerProviderNetworks.py: the FHIR provider-network *)
(* crawler.  fetch_fhir_resource (bounded retry with backoff),              *)
(* fetch_all_practitioner_roles (pagination), process_payer (reference      *)
(* resolution with per-payer caches, then the CSV writes) and main (the     *)
(* loop over the payer list with its failure boundary).                     *)
(*                                                                         *)
(* Python values: a dict is a function on its keys, a list is a sequence,   *)
(* a string holding a path or URL is the sequence of its '/'-separated      *)
(* segments, None is the value None below.                                  *)
(***************************************************************************)
EXTENDS Integers, Sequences, FiniteSets, TLC

\* ------------------------------------------------------------------ bounds

\* Largest max_retries (and length of the network's answer sequence) explored
\* for one call of fetch_fhir_resource.
MaxRetriesBound == 4

\* Page requests one call of fetch_all_practitioner_roles is followed for.
MaxPageRequests == 4

\* How many times the program is started.
MaxRuns == 2

\* Identifiers a practitioner handed to extract_npi_from_practitioner carries.
MaxIdentifiers == 3

\* ------------------------------------------------------- program constants

\* def fetch_fhir_resource(url, max_retries: int = 3)
DefaultMaxRetries == 3

\* time.sleep(2 ** attempt)
BackoffBase == 2

\* ----------------------------------------------------------- Python values

None == [None |-> TRUE]

EmptyDict == [k \in {} |-> k]

\* d.get(k, default)
Get(d, k, default) == IF k \in DOMAIN d THEN d[k] ELSE default

\* truth value of a dict-or-None (`if bundle`, `if org_data`): None and {} are false
Truthy(d) == d # None /\ DOMAIN d # {}

\* truth value of a str or list (`if org_ref`, `while next_url`)
NonEmpty(s) == s # None /\ s # <<>>

Last(s) == s[Len(s)]

Front(s) == SubSeq(s, 1, Len(s) - 1)

RECURSIVE Pow(_, _)
Pow(b, e) == IF e = 0 THEN 1 ELSE b * Pow(b, e - 1)

RECURSIVE SeqsOfLen(_, _)
SeqsOfLen(S, n) ==
    IF n = 0 THEN {<<>>}
    ELSE {Append(s, x) : s \in SeqsOfLen(S, n - 1), x \in S}

\* ------------------------------------------------------ fetch_fhir_resource

\* What one requests.get + raise_for_status + response.json() can give: the
\* decoded body of a 2xx answer, a non-2xx answer (HTTPError) or a transport
\* failure (ConnectionError, Timeout).  All failures are RequestException.
OkResponse(body) == [status |-> "ok", json |-> body]

HttpError == [status |-> "http_error"]

TransportError == [status |-> "transport_error"]

\* The for-loop of fetch_fhir_resource from iteration `attempt` on; net[k] is
\* the network's answer to the k-th GET.  Returns the returned value with the
\* number of GETs made and the sleeps taken, in order.
RECURSIVE fetch_loop(_, _, _, _)
fetch_loop(attempt, max_retries, net, sleeps) ==
    IF attempt >= max_retries
    THEN [ret |-> None, attempts |-> attempt, sleeps |-> sleeps]
    ELSE LET response == net[attempt + 1] IN
         IF response.status = "ok"
         THEN [ret |-> response.json, attempts |-> attempt + 1, sleeps |-> sleeps]
         ELSE IF attempt < max_retries - 1
              THEN fetch_loop(attempt + 1, max_retries, net,
                              Append(sleeps, Pow(BackoffBase, attempt)))
              ELSE [ret |-> None, attempts |-> attempt + 1, sleeps |-> sleeps]

MutFetchOneMoreAttempt(max_retries, net) == fetch_loop(0, max_retries + 1, net, <<>>)

RECURSIVE MutLoopSleepAlways(_, _, _, _)
MutLoopSleepAlways(attempt, max_retries, net, sleeps) ==
    IF attempt >= max_retries
    THEN [ret |-> None, attempts |-> attempt, sleeps |-> sleeps]
    ELSE LET response == net[attempt + 1] IN
         IF response.status = "ok"
         THEN [ret |-> response.json, attempts |-> attempt + 1, sleeps |-> sleeps]
         ELSE MutLoopSleepAlways(attempt + 1, max_retries, net,
                                 Append(sleeps, Pow(BackoffBase, attempt)))

MutFetchSleepAlways(max_retries, net) == MutLoopSleepAlways(0, max_retries, net, <<>>)

fetch_fhir_resource(max_retries, net) == fetch_loop(0, max_retries, net, <<>>)

\* ------------------------------------------------------- strings and URLs

\* the empty string '' (its split('/') is [''])
EmptyStr == <<"">>

\* None where a string is expected (link.get('url') of a link without url)
NoneStr == <<>>

\* truth value of a str-or-None (`while next_url`, `if org_ref`)
StrTruthy(s) == s # NoneStr /\ s # EmptyStr

MutStartswithAnyType(s, type) == Len(s) >= 2

\* s.startswith(type + '/')
startswith(s, type) == Len(s) >= 2 /\ s[1] = type

\* url.endswith('/')
endswith_slash(url) == Last(url) = ""

\* urljoin(base, rel) for a relative path rel: rel replaces what follows the
\* last '/' of base
urljoin(base, rel) == Front(base) \o rel

\* the normalisation of base_url in process_payer and fetch_all_practitioner_roles
normalize_base(base_url) == IF endswith_slash(base_url) THEN base_url ELSE Append(base_url, "")

\* -------------------------------------------------- insertion-ordered dicts

\* organizations, locations, practitioners: a dict id -> data, kept as the
\* sequence of its <<id, data>> items in insertion order (the order of .items())
Keys(d) == {d[k][1] : k \in DOMAIN d}

Lookup(d, id, default) ==
    IF id \in Keys(d) THEN d[CHOOSE k \in DOMAIN d : d[k][1] = id][2] ELSE default

Store(d, id, data) ==
    IF id \in Keys(d)
    THEN [k \in DOMAIN d |-> IF d[k][1] = id THEN <<id, data>> ELSE d[k]]
    ELSE Append(d, <<id, data>>)

\* f with f[k] = v (a dict assignment on a function)
Put(f, k, v) == [x \in DOMAIN f \cup {k} |-> IF x = k THEN v ELSE f[x]]

\* ------------------------------------------------------------- the upstream

NetworkReferenceUrl ==
    "http://hl7.org/fhir/us/davinci-pdex-plan-net/StructureDefinition/network-reference"

Ref(s) == [reference |-> s]

\* PractitionerRole resources as a payer's server returns them
PR1 ==
    [resourceType |-> "PractitionerRole", id |-> <<"pr1">>,
     extension |-> <<[url |-> NetworkReferenceUrl,
                      valueReference |-> Ref(<<"Organization", "o1">>)],
                     [url |-> "http://example.org/other-extension"]>>,
     organization |-> Ref(<<"Organization", "o1">>),
     practitioner |-> Ref(<<"Practitioner", "p1">>),
     location |-> <<Ref(<<"Location", "l1">>)>>,
     specialty |-> <<[coding |-> <<[code |-> "207Q00000X", display |-> "Family Medicine",
                                    system |-> "http://nucc.org/provider-taxonomy"]>>]>>,
     telecom |-> <<[system |-> "phone", value |-> "555-0100", use |-> "work"]>>]

PR2 ==
    [resourceType |-> "PractitionerRole", id |-> <<"pr2">>,
     organization |-> Ref(<<"Organization", "o1">>),
     practitioner |-> Ref(<<"Practitioner", "p1">>),
     location |-> <<Ref(<<"Location", "l1">>), Ref(<<"Location", "east", "l3">>)>>,
     telecom |-> <<[system |-> "fax", value |-> "555-0101"]>>]

PR3 ==
    [resourceType |-> "PractitionerRole", id |-> <<"pr3">>,
     extension |-> <<[url |-> NetworkReferenceUrl,
                      valueReference |-> Ref(<<"Organization", "o2">>)]>>,
     organization |-> Ref(<<"Group", "g1">>),
     practitioner |-> Ref(<<"PractitionerRole", "p1">>),
     location |-> <<Ref(<<"Location", "l1">>), Ref(<<"Organization", "o1">>)>>]

PR4 ==
    [resourceType |-> "PractitionerRole", id |-> <<"pr4">>,
     extension |-> <<[url |-> "http://example.org/other-extension"]>>,
     organization |-> Ref(<<"Organization", "o1">>),
     location |-> <<Ref(<<"Organization", "o1">>)>>]

\* a record the server lists on two pages
PR5 ==
    [resourceType |-> "PractitionerRole", id |-> <<"pr5">>,
     practitioner |-> Ref(<<"Practitioner", "p1">>)]

\* a bundle entry that is not a PractitionerRole
OtherEntry == [resourceType |-> "OperationOutcome", id |-> <<"oo1">>]

\* The entities the server holds, by the path after the base URL; any other
\* path answers 404.  Organization/o2 answers 200 with the empty object.
ServerEntities ==
    [p \in {<<"Organization", "o1">>, <<"Organization", "o2">>, <<"Location", "l1">>,
            <<"Location", "east", "l3">>, <<"Practitioner", "p1">>} |->
        CASE p = <<"Organization", "o1">> ->
                 [resourceType |-> "Organization", id |-> <<"o1">>, name |-> "Acme Health",
                  type |-> <<[coding |-> <<[code |-> "ntwk", display |-> "Network"]>>]>>,
                  address |-> <<[line |-> <<"1 Main St">>, city |-> "Springfield",
                                 state |-> "IL", postalCode |-> "62701"]>>]
          [] p = <<"Organization", "o2">> -> EmptyDict
          [] p = <<"Location", "l1">> ->
                 [resourceType |-> "Location", id |-> <<"l1">>, name |-> "Main Clinic",
                  status |-> "active",
                  address |-> [line |-> <<"1 Main St">>, city |-> "Springfield"]]
          [] p = <<"Location", "east", "l3">> ->
                 [resourceType |-> "Location", id |-> <<"l3">>, name |-> "East Clinic"]
          [] p = <<"Practitioner", "p1">> ->
                 [resourceType |-> "Practitioner", id |-> <<"p1">>,
                  identifier |-> <<[value |-> "A-17",
                                    type |-> [coding |-> <<[code |-> "MR"]>>]],
                                   [value |-> "1234567890",
                                    type |-> [coding |-> <<[code |-> "NPI"]>>]]>>,
                  name |-> <<[family |-> "Doe", given |-> <<"Jane", "Q">>]>>]]

\* The page chains a payer's PractitionerRole collection can be: each page
\* with its resources and the page its "next" link points to (0: no link).
Worlds == {"full", "small", "empty", "dup"}

\* further chains, for the pagination alone: three pages, and two pages whose
\* "next" links point at each other
PageWorlds == Worlds \cup {"three", "cycle"}

\* the upstreams of the call followed without end: the chains, and two pages
\* without a PractitionerRole whose "next" links point at each other
LivePageWorlds == (PageWorlds \ {"cycle"}) \cup {"loop"}

\* a chain of one page with one record, for the runs over several payers
TinyWorlds == {"tiny"}

WorldPages(w) ==
    CASE w = "full" -> <<[resources |-> <<PR1, OtherEntry, PR2>>, next |-> 2],
                         [resources |-> <<PR3>>, next |-> 0]>>
      [] w = "small" -> <<[resources |-> <<PR1>>, next |-> 0]>>
      [] w = "empty" -> <<[resources |-> <<>>, next |-> 0]>>
      [] w = "tiny" -> <<[resources |-> <<PR4>>, next |-> 0]>>
      [] w = "dup" -> <<[resources |-> <<PR5>>, next |-> 2],
                        [resources |-> <<PR5>>, next |-> 0]>>
      [] w = "three" -> <<[resources |-> <<PR1, OtherEntry>>, next |-> 2],
                          [resources |-> <<OtherEntry, PR2>>, next |-> 3],
                          [resources |-> <<PR3>>, next |-> 0]>>
      [] w = "cycle" -> <<[resources |-> <<PR1>>, next |-> 2],
                          [resources |-> <<PR2>>, next |-> 1]>>
      [] w = "loop" -> <<[resources |-> <<OtherEntry>>, next |-> 2],
                         [resources |-> <<OtherEntry>>, next |-> 1]>>

PageNames ==
    <<"PractitionerRole?_count=100", "PractitionerRole?_count=100&page=2",
      "PractitionerRole?_count=100&page=3">>

\* the URL of page k of the collection under the (normalised) base URL
PageUrl(base, k) == urljoin(base, <<PageNames[k]>>)

\* the Bundle the server answers for page p
Bundle(base, p) ==
    [resourceType |-> "Bundle",
     entry |-> [k \in 1..Len(p.resources) |-> [resource |-> p.resources[k]]],
     link |-> <<[relation |-> "self"]>> \o
              (IF p.next # 0
               THEN <<[relation |-> "next", url |-> PageUrl(base, p.next)]>>
               ELSE <<>>)]

\* the server's JSON body at url (None: 404) when the payer's upstream is w
ServerJson(w, base, url) ==
    LET path == SubSeq(url, Len(base), Len(url))
        pages == WorldPages(w)
        hit == {k \in 1..Len(pages) : PageUrl(base, k) = url}
    IN  IF hit # {} THEN Bundle(base, pages[CHOOSE k \in hit : TRUE])
        ELSE IF path \in DOMAIN ServerEntities THEN ServerEntities[path]
        ELSE None

\* what the network can answer to the GETs of one logical fetch of a URL
\* whose body on the server is `body`
NetAnswers(body) ==
    SeqsOfLen((IF body = None THEN {} ELSE {OkResponse(body)})
                  \cup {HttpError, TransportError},
              DefaultMaxRetries)

\* ------------------------------------------------------------- extractors

\* a string built by sep.join(parts) is kept as the sequence of its parts
Opt(x) == IF x # "" THEN <<x>> ELSE <<>>

MutNpiScanOneIdentifier(identifiers, k) ==
    IF k > Len(identifiers) THEN "0"
    ELSE LET identifier == identifiers[k]
             coding == Get(Get(identifier, "type", EmptyDict), "coding", <<>>)
         IN  IF \E c \in 1..Len(coding) : Get(coding[c], "code", "") = "NPI"
             THEN Get(identifier, "value", "0")
             ELSE "0"

RECURSIVE npi_scan(_, _)
npi_scan(identifiers, k) ==
    IF k > Len(identifiers) THEN "0"
    ELSE LET identifier == identifiers[k]
             coding == Get(Get(identifier, "type", EmptyDict), "coding", <<>>)
         IN  IF \E c \in 1..Len(coding) : Get(coding[c], "code", "") = "NPI"
             THEN Get(identifier, "value", "0")
             ELSE npi_scan(identifiers, k + 1)

MutNpiEmptyWhenAbsent(practitioner_data) ==
    IF ~Truthy(practitioner_data) THEN ""
    ELSE npi_scan(Get(practitioner_data, "identifier", <<>>), 1)

extract_npi_from_practitioner(practitioner_data) ==
    IF ~Truthy(practitioner_data) THEN "0"
    ELSE npi_scan(Get(practitioner_data, "identifier", <<>>), 1)

extract_practitioner_name(practitioner_data) ==
    IF ~Truthy(practitioner_data) THEN [family |-> "", given |-> <<>>]
    ELSE LET names == Get(practitioner_data, "name", <<>>) IN
         IF names # <<>>
         THEN [family |-> Get(names[1], "family", ""),
               given |-> Get(names[1], "given", <<>>)]
         ELSE [family |-> "", given |-> <<>>]

address_parts(addr) ==
    Get(addr, "line", <<>>) \o Opt(Get(addr, "city", "")) \o Opt(Get(addr, "state", ""))
        \o Opt(Get(addr, "postalCode", ""))

extract_organization_info(org_data) ==
    IF ~Truthy(org_data) THEN [name |-> "", type |-> "", address |-> <<>>]
    ELSE LET types == Get(org_data, "type", <<>>)
             coding == IF types # <<>> THEN Get(types[1], "coding", <<>>) ELSE <<>>
             addresses == Get(org_data, "address", <<>>)
         IN  [name |-> Get(org_data, "name", ""),
              type |-> IF coding # <<>>
                       THEN Get(coding[1], "display", Get(coding[1], "code", ""))
                       ELSE "",
              address |-> IF addresses # <<>> THEN address_parts(addresses[1]) ELSE <<>>]

extract_location_info(location_data) ==
    IF ~Truthy(location_data) THEN [name |-> "", status |-> "", address |-> <<>>]
    ELSE [name |-> Get(location_data, "name", ""),
          status |-> Get(location_data, "status", ""),
          address |-> address_parts(Get(location_data, "address", EmptyDict))]

\* ------------------------------------------------------------ payers, files

Stubs == {"a", "b", "c"}

\* one row of good_payer_endpoints.csv
Payer(stub) ==
    [payer_name |-> stub, payer_stub |-> stub,
     payer_provider_directory_fhir_url |->
         CASE stub = "a" -> <<"https:", "", "a.example", "fhir">>
           [] stub = "b" -> <<"https:", "", "b.example", "fhir", "">>
           [] stub = "c" -> <<"https:", "", "c.example", "dir", "r4">>]

\* good_payer_endpoints.csv with the rows csv.DictReader gives
Readable(rows) == [readable |-> TRUE, rows |-> rows]

\* good_payer_endpoints.csv missing or unreadable: open() raises
Unreadable == [readable |-> FALSE, rows |-> <<>>]

MutOutputDirOneRoot(mode, payer_stub) == <<"payer_slurp_results", payer_stub>>

\* output_dir of process_payer
OutputDir(mode, payer_stub) ==
    IF mode THEN <<"payer_slurp_test_results", payer_stub>>
    ELSE <<"payer_slurp_results", payer_stub>>

\* the CSV files in the order process_payer writes them
Tables ==
    <<"org_to_pr.csv", "org.csv", "location_to_pr.csv", "location.csv", "p_to_pr.csv",
      "spec_to_pr.csv", "tele_to_pr.csv">>

Fieldnames(k) ==
    CASE k = 1 -> <<"practitioner_role_fhir_url", "organization_fhir_url",
                    "organization_reference">>
      [] k = 2 -> <<"organization_fhir_url", "name", "type", "address">>
      [] k = 3 -> <<"practitioner_role_fhir_url", "location_fhir_url", "location_reference">>
      [] k = 4 -> <<"location_fhir_url", "name", "status", "address">>
      [] k = 5 -> <<"practitioner_role_fhir_url", "practitioner_fhir_url",
                    "practitioner_reference", "npi", "is_npi_invalid", "family_name",
                    "given_name">>
      [] k = 6 -> <<"practitioner_role_fhir_url", "specialty_code", "specialty_display",
                    "specialty_system">>
      [] k = 7 -> <<"practitioner_role_fhir_url", "telecom_system", "telecom_value",
                    "telecom_use">>

\* what `with open(path, 'w')` followed by `if rows: writeheader(); writerows(rows)`
\* leaves in the file
CsvFile(fieldnames, rows) ==
    IF rows # <<>> THEN [header |-> fieldnames, rows |-> rows]
    ELSE [header |-> <<>>, rows |-> <<>>]

\* a file opened for writing and not written to
Truncated == [header |-> <<>>, rows |-> <<>>]

org_rows(orgs, base) ==
    [k \in DOMAIN orgs |->
        LET org_id == orgs[k][1]
            org_info == extract_organization_info(orgs[k][2])
        IN  <<urljoin(base, <<"Organization", org_id>>), org_info.name, org_info.type,
              org_info.address>>]

location_rows(locs, base) ==
    [k \in DOMAIN locs |->
        LET loc_id == locs[k][1]
            loc_info == extract_location_info(locs[k][2])
        IN  <<urljoin(base, <<"Location", loc_id>>), loc_info.name, loc_info.status,
              loc_info.address>>]

\* ---------------------------------------------------------------- variables

VARIABLES
    fetch_args,     \* one call of fetch_fhir_resource: max_retries and the network's answers
    fetch_ret,      \* what that call returned
    npi_arg,        \* one call of extract_npi_from_practitioner: practitioner_data
    npi_ret,        \* what that call returned
    endpoints,      \* good_payer_endpoints.csv: its rows, or Unreadable
    world,          \* the upstream of each payer (a member of Worlds)
    test_mode,      \* args.test
    test_limit,     \* args.limit
    earlier,        \* what the start before this one met and left (NoEarlierRun: none)
    run,            \* how many times the program has been started
    mpc,            \* where main is: "start", "loop", "done", "crashed"
    payers,         \* main: the loaded payer list
    payer_idx,      \* main: the index of the payer of the current loop iteration
    calls,          \* the calls of process_payer of this run, each with its outcome
    pc,             \* where process_payer is: "idle", "paginate", "paged", "resolve", "write"
    base_url,       \* process_payer: the normalised base URL
    output_dir,     \* process_payer: output_dir
    next_url,       \* fetch_all_practitioner_roles: next_url
    all_entries,    \* fetch_all_practitioner_roles: all_entries, then practitioner_roles
    page_log,       \* the page requests of this call of process_payer, in order
    organizations,  \* process_payer: id -> org_data
    locations,      \* process_payer: id -> location_data
    practitioners,  \* process_payer: id -> practitioner_data
    org_to_pr_rows,
    location_to_pr_rows,
    p_to_pr_rows,
    spec_to_pr_rows,
    tele_to_pr_rows,
    rec_idx,        \* process_payer: the index i of the record being processed
    stage,          \* process_payer: the part of the record's processing that comes next
    sub_idx,        \* process_payer: the index in the list that part loops over
    write_idx,      \* process_payer: the index in Tables of the file written next
    fetch_log,      \* the entity fetches of this call of process_payer, in order
    fs              \* the file system: directory -> file name -> file

\* the calls of single functions examined on their own
fetchVars == <<fetch_args, fetch_ret, npi_arg, npi_ret>>

\* what a start of the program is given, and the record of the start before it
inputVars == <<endpoints, world, test_mode, test_limit, earlier>>

mainVars == <<run, mpc, payers, payer_idx, calls>>

pageVars == <<next_url, all_entries>>

cacheVars == <<organizations, locations, practitioners>>

rowVars ==
    <<org_to_pr_rows, location_to_pr_rows, p_to_pr_rows, spec_to_pr_rows, tele_to_pr_rows>>

posVars == <<rec_idx, stage, sub_idx, write_idx>>

frameVars == <<pc, base_url, output_dir, pageVars, cacheVars, rowVars, posVars>>

vars == <<fetchVars, inputVars, mainVars, frameVars, page_log, fetch_log, fs>>

\* ------------------------------------------------------------ initial states

NotCalled == [called |-> FALSE]

NoEarlierRun == [ran |-> FALSE]

\* no fetch_fhir_resource call of its own is examined
NoFetchCall ==
    /\ fetch_args = [max_retries |-> DefaultMaxRetries, net |-> <<>>]
    /\ fetch_ret = NotCalled
    /\ npi_arg = None
    /\ npi_ret = NotCalled

\* no call of process_payer is active: its locals do not exist
NoFrame ==
    /\ pc = "idle"
    /\ base_url = NoneStr
    /\ output_dir = NoneStr
    /\ next_url = NoneStr
    /\ all_entries = <<>>
    /\ organizations = <<>>
    /\ locations = <<>>
    /\ practitioners = <<>>
    /\ org_to_pr_rows = <<>>
    /\ location_to_pr_rows = <<>>
    /\ p_to_pr_rows = <<>>
    /\ spec_to_pr_rows = <<>>
    /\ tele_to_pr_rows = <<>>
    /\ rec_idx = 0
    /\ stage = "none"
    /\ sub_idx = 0
    /\ write_idx = 0

MutDropFrameKeepsCaches ==
    /\ pc' = "idle"
    /\ base_url' = NoneStr
    /\ output_dir' = NoneStr
    /\ next_url' = NoneStr
    /\ all_entries' = <<>>
    /\ UNCHANGED <<organizations, locations, practitioners>>
    /\ org_to_pr_rows' = <<>>
    /\ location_to_pr_rows' = <<>>
    /\ p_to_pr_rows' = <<>>
    /\ spec_to_pr_rows' = <<>>
    /\ tele_to_pr_rows' = <<>>
    /\ rec_idx' = 0
    /\ stage' = "none"
    /\ sub_idx' = 0
    /\ write_idx' = 0

\* the locals of process_payer are dropped when it returns or raises
DropFrame ==
    /\ pc' = "idle"
    /\ base_url' = NoneStr
    /\ output_dir' = NoneStr
    /\ next_url' = NoneStr
    /\ all_entries' = <<>>
    /\ organizations' = <<>>
    /\ locations' = <<>>
    /\ practitioners' = <<>>
    /\ org_to_pr_rows' = <<>>
    /\ location_to_pr_rows' = <<>>
    /\ p_to_pr_rows' = <<>>
    /\ spec_to_pr_rows' = <<>>
    /\ tele_to_pr_rows' = <<>>
    /\ rec_idx' = 0
    /\ stage' = "none"
    /\ sub_idx' = 0
    /\ write_idx' = 0

\* The program about to be started for the first time: nothing written yet.
\* Payers outside the endpoint file keep the upstream "empty".
InitProgram(endpointSet, worldSet, modeSet, limitSet) ==
    /\ NoFetchCall
    /\ endpoints \in endpointSet
    /\ world \in {w \in [Stubs -> worldSet \cup {"empty"}] :
                     \A st \in Stubs :
                         (\A k \in DOMAIN endpoints.rows :
                              endpoints.rows[k].payer_stub # st) => w[st] = "empty"}
    /\ test_mode \in modeSet
    /\ test_limit \in limitSet
    /\ earlier = NoEarlierRun
    /\ run = 1
    /\ mpc = "start"
    /\ payers = <<>>
    /\ payer_idx = 0
    /\ calls = <<>>
    /\ NoFrame
    /\ page_log = <<>>
    /\ fetch_log = <<>>
    /\ fs = EmptyDict

\* ------------------------------------------- specification of one fetch call

Bodies == {[resourceType |-> "Organization"], EmptyDict}

Responses == {OkResponse(b) : b \in Bodies} \cup {HttpError, TransportError}

InitFetch ==
    /\ fetch_args \in [max_retries : 0..MaxRetriesBound,
                       net : SeqsOfLen(Responses, MaxRetriesBound + 1)]
    /\ fetch_ret = NotCalled
    /\ npi_arg = None
    /\ npi_ret = NotCalled
    /\ endpoints = Unreadable
    /\ world = [st \in Stubs |-> "empty"]
    /\ test_mode = FALSE
    /\ test_limit = 100
    /\ earlier = NoEarlierRun
    /\ run = 0
    /\ mpc = "done"
    /\ payers = <<>>
    /\ payer_idx = 0
    /\ calls = <<>>
    /\ NoFrame
    /\ page_log = <<>>
    /\ fetch_log = <<>>
    /\ fs = EmptyDict

CallFetch ==
    /\ fetch_ret = NotCalled
    /\ fetch_args.net # <<>>
    /\ fetch_ret' = [called |-> TRUE,
                     result |-> fetch_fhir_resource(fetch_args.max_retries, fetch_args.net)]
    /\ UNCHANGED <<fetch_args, npi_arg, npi_ret, inputVars, mainVars, frameVars, page_log,
                   fetch_log, fs>>

NextFetch == CallFetch

SpecFetch == InitFetch /\ [][NextFetch]_vars

\* ------------------------------------- extract_npi_from_practitioner alone

TypeCoding(codes) == [coding |-> [k \in DOMAIN codes |-> [code |-> codes[k]]]]

\* entries of a practitioner's identifier list
Identifiers ==
    {[type |-> TypeCoding(<<"NPI">>), value |-> "1234567890"],
     [type |-> TypeCoding(<<"NPI">>), value |-> "1987654321"],
     [type |-> TypeCoding(<<"MR", "NPI">>), value |-> "1555555555"],
     [type |-> TypeCoding(<<"MR">>), value |-> "A-17"],
     [type |-> TypeCoding(<<"NPI">>)],
     [value |-> "X-1"]}

\* what process_payer hands to extract_npi_from_practitioner: the cached
\* practitioner or, after a failed fetch, None
NpiArguments ==
    {None, EmptyDict, [resourceType |-> "Practitioner"]}
        \cup {[resourceType |-> "Practitioner", identifier |-> ids] :
                 ids \in UNION {SeqsOfLen(Identifiers, n) : n \in 0..MaxIdentifiers}}

InitNpi ==
    /\ fetch_args = [max_retries |-> DefaultMaxRetries, net |-> <<>>]
    /\ fetch_ret = NotCalled
    /\ npi_arg \in NpiArguments
    /\ npi_ret = NotCalled
    /\ endpoints = Unreadable
    /\ world = [st \in Stubs |-> "empty"]
    /\ test_mode = FALSE
    /\ test_limit = 100
    /\ earlier = NoEarlierRun
    /\ run = 0
    /\ mpc = "done"
    /\ payers = <<>>
    /\ payer_idx = 0
    /\ calls = <<>>
    /\ NoFrame
    /\ page_log = <<>>
    /\ fetch_log = <<>>
    /\ fs = EmptyDict

CallNpi ==
    /\ npi_ret = NotCalled
    /\ npi_ret' = [called |-> TRUE, result |-> extract_npi_from_practitioner(npi_arg)]
    /\ UNCHANGED <<fetch_args, fetch_ret, npi_arg, inputVars, mainVars, frameVars, page_log,
                   fetch_log, fs>>

NextNpi == CallNpi

SpecNpi == InitNpi /\ [][NextNpi]_vars

\* ------------------------------------------- fetch_all_practitioner_roles

\* the payer of the current iteration of main's loop, and its upstream
CurPayer == payers[payer_idx]

CurWorld == world[CurPayer.payer_stub]

\* what fetch_fhir_resource(url) can return, over the answers of the network
FetchResults(url) ==
    {fetch_fhir_resource(DefaultMaxRetries, net).ret :
        net \in NetAnswers(ServerJson(CurWorld, base_url, url))}

\* `if test_mode and len(all_entries) >= test_limit`
MutLimitReachedWhenExceeded(mode, limit, entries) == mode /\ Len(entries) > limit

limit_reached(mode, limit, entries) == mode /\ Len(entries) >= limit

RECURSIVE MutAppendUnfiltered(_, _, _, _, _)
MutAppendUnfiltered(entries_so_far, entries, k, mode, limit) ==
    IF k > Len(entries) THEN entries_so_far
    ELSE LET appended == Append(entries_so_far, Get(entries[k], "resource", EmptyDict)) IN
         IF limit_reached(mode, limit, appended) THEN appended
         ELSE MutAppendUnfiltered(appended, entries, k + 1, mode, limit)

\* `for entry in entries:` from entry k on: the PractitionerRole resources are
\* appended, and in test mode the loop is left when the limit is reached
RECURSIVE append_entries(_, _, _, _, _)
append_entries(entries_so_far, entries, k, mode, limit) ==
    IF k > Len(entries) THEN entries_so_far
    ELSE LET resource == Get(entries[k], "resource", EmptyDict) IN
         IF Get(resource, "resourceType", "") = "PractitionerRole"
         THEN LET appended == Append(entries_so_far, resource) IN
              IF limit_reached(mode, limit, appended) THEN appended
              ELSE append_entries(appended, entries, k + 1, mode, limit)
         ELSE append_entries(entries_so_far, entries, k + 1, mode, limit)

MutNeverStop(mode, limit, entries) == FALSE

\* the check after the page's entries: `if test_mode and len(all_entries) >= test_limit: break`
stop_after_page(mode, limit, entries) == limit_reached(mode, limit, entries)

\* `for link in bundle.get('link', [])`: the url of the first "next" link
find_next_link(bundle) ==
    LET links == Get(bundle, "link", <<>>)
        hits == {k \in 1..Len(links) : Get(links[k], "relation", "") = "next"}
    IN  IF hits = {} THEN NoneStr
        ELSE Get(links[CHOOSE k \in hits : \A h \in hits : k <= h], "url", NoneStr)

MutAbsentContinues(url, entries) ==
    [pc |-> "paginate", next_url |-> url, all_entries |-> entries]

\* `if not bundle: break`: the loop is left with what was accumulated
absent_step(url, entries) == [pc |-> "paged", next_url |-> url, all_entries |-> entries]

\* One iteration of `while next_url:` together with the loop test that
\* follows it: the page is fetched; an absent (or empty) bundle ends the loop,
\* otherwise its entries are appended and the loop goes on to the next link
\* unless the test limit is reached or there is no next link.
\* one iteration of `while next_url:` on the bundle the fetch returned
LoopIteration(bundle) ==
    LET appended == append_entries(all_entries, Get(bundle, "entry", <<>>), 1,
                                   test_mode, test_limit)
        link_url == find_next_link(bundle)
    IN  IF ~Truthy(bundle)
        THEN /\ pc' = absent_step(next_url, all_entries).pc
             /\ next_url' = absent_step(next_url, all_entries).next_url
             /\ all_entries' = absent_step(next_url, all_entries).all_entries
        ELSE /\ all_entries' = appended
             /\ IF stop_after_page(test_mode, test_limit, appended)
                THEN /\ pc' = "paged"
                     /\ UNCHANGED next_url
                ELSE /\ next_url' = link_url
                     /\ pc' = IF StrTruthy(link_url) THEN "paginate" ELSE "paged"

FetchPage ==
    /\ pc = "paginate"
    /\ Len(page_log) < MaxPageRequests
    /\ \E bundle \in FetchResults(next_url) :
           /\ page_log' = Append(page_log, [url |-> next_url, ok |-> bundle # None])
           /\ LoopIteration(bundle)
    /\ UNCHANGED <<fetchVars, inputVars, mainVars, base_url, output_dir, cacheVars, rowVars,
                   posVars, fetch_log, fs>>

\* the same iteration once the request log holds MaxPageRequests requests:
\* the call goes on, the log keeps its first MaxPageRequests entries
FetchPageLogFull ==
    /\ pc = "paginate"
    /\ Len(page_log) = MaxPageRequests
    /\ \E bundle \in FetchResults(next_url) : LoopIteration(bundle)
    /\ UNCHANGED <<fetchVars, inputVars, mainVars, base_url, output_dir, cacheVars, rowVars,
                   posVars, page_log, fetch_log, fs>>

\* ------------------------------------------- process_payer: the references

\* the record of the current iteration of `for i, pr in enumerate(practitioner_roles)`
CurRecord == all_entries[rec_idx]

MutPrUrlNoCollection(pr) == urljoin(base_url, Get(pr, "id", EmptyStr))

\* urljoin(base_url, f'PractitionerRole/{pr_id}')
pr_url(pr) == urljoin(base_url, <<"PractitionerRole">> \o Get(pr, "id", EmptyStr))

\* one fetch as the log shows it: what was fetched and what came back
LogEntry(type, id, url, data) ==
    [type |-> type, id |-> id, url |-> url,
     kind |-> IF data = None THEN "absent" ELSE IF Truthy(data) THEN "data" ELSE "empty"]

MutCacheStoreAlways(cache, id, data) == Store(cache, id, data)

\* `if org_data: organizations[org_id] = org_data` (likewise locations, practitioners)
CacheStore(cache, id, data) == IF Truthy(data) THEN Store(cache, id, data) ELSE cache

\* `if id not in cache: data = fetch_fhir_resource(urljoin(base_url, ref)); if data: ...`
\* for a reference of the expected type: the cache and the fetch log afterwards
ResolveOutcomes(cache, type, ref) ==
    LET id == Last(ref)
        url == urljoin(base_url, ref)
    IN  IF id \in Keys(cache)
        THEN {[cache |-> cache, log |-> fetch_log]}
        ELSE {[cache |-> CacheStore(cache, id, data),
               log |-> Append(fetch_log, LogEntry(type, id, url, data))] :
                 data \in FetchResults(url)}

\* an organization reference, from the extension list or the organization field
MutResolveOrganizationRowOnFetch(org_ref) ==
    IF startswith(org_ref, "Organization")
    THEN \E o \in ResolveOutcomes(organizations, "Organization", org_ref) :
             /\ organizations' = o.cache
             /\ fetch_log' = o.log
             /\ org_to_pr_rows' =
                    IF Last(org_ref) \in Keys(organizations) THEN org_to_pr_rows
                    ELSE Append(org_to_pr_rows,
                                <<pr_url(CurRecord), urljoin(base_url, org_ref), org_ref>>)
    ELSE UNCHANGED <<organizations, fetch_log, org_to_pr_rows>>

ResolveOrganization(org_ref) ==
    IF startswith(org_ref, "Organization")
    THEN \E o \in ResolveOutcomes(organizations, "Organization", org_ref) :
             /\ organizations' = o.cache
             /\ fetch_log' = o.log
             /\ org_to_pr_rows' =
                    Append(org_to_pr_rows,
                           <<pr_url(CurRecord), urljoin(base_url, org_ref), org_ref>>)
    ELSE UNCHANGED <<organizations, fetch_log, org_to_pr_rows>>

\* one iteration of `for ext in extensions:`
ProcessExtension ==
    /\ pc = "resolve"
    /\ stage = "extension"
    /\ sub_idx <= Len(Get(CurRecord, "extension", <<>>))
    /\ LET ext == Get(CurRecord, "extension", <<>>)[sub_idx] IN
       IF Get(ext, "url", "") = NetworkReferenceUrl
       THEN ResolveOrganization(Get(Get(ext, "valueReference", EmptyDict), "reference",
                                    EmptyStr))
       ELSE UNCHANGED <<organizations, fetch_log, org_to_pr_rows>>
    /\ sub_idx' = sub_idx + 1
    /\ UNCHANGED <<fetchVars, inputVars, mainVars, pc, base_url, output_dir, pageVars,
                   page_log, locations, practitioners, location_to_pr_rows, p_to_pr_rows,
                   spec_to_pr_rows, tele_to_pr_rows, rec_idx, stage, write_idx, fs>>

\* the end of the extension loop and the direct organization reference
ProcessOrganization ==
    /\ pc = "resolve"
    /\ stage = "extension"
    /\ sub_idx > Len(Get(CurRecord, "extension", <<>>))
    /\ ResolveOrganization(Get(Get(CurRecord, "organization", EmptyDict), "reference",
                               EmptyStr))
    /\ stage' = "practitioner"
    /\ UNCHANGED <<fetchVars, inputVars, mainVars, pc, base_url, output_dir, pageVars,
                   page_log, locations, practitioners, location_to_pr_rows, p_to_pr_rows,
                   spec_to_pr_rows, tele_to_pr_rows, rec_idx, sub_idx, write_idx, fs>>

\* the practitioner reference, with the NPI and name of the practitioner
ProcessPractitioner ==
    /\ pc = "resolve"
    /\ stage = "practitioner"
    /\ LET practitioner_ref ==
               Get(Get(CurRecord, "practitioner", EmptyDict), "reference", EmptyStr)
       IN  IF startswith(practitioner_ref, "Practitioner")
           THEN \E o \in ResolveOutcomes(practitioners, "Practitioner", practitioner_ref) :
                    LET practitioner_data ==
                            Lookup(o.cache, Last(practitioner_ref), EmptyDict)
                        name_info == extract_practitioner_name(practitioner_data)
                    IN  /\ practitioners' = o.cache
                        /\ fetch_log' = o.log
                        /\ p_to_pr_rows' =
                               Append(p_to_pr_rows,
                                      <<pr_url(CurRecord),
                                        urljoin(base_url, practitioner_ref),
                                        practitioner_ref,
                                        extract_npi_from_practitioner(practitioner_data),
                                        "?", name_info.family, name_info.given>>)
           ELSE UNCHANGED <<practitioners, fetch_log, p_to_pr_rows>>
    /\ stage' = "location"
    /\ sub_idx' = 1
    /\ UNCHANGED <<fetchVars, inputVars, mainVars, pc, base_url, output_dir, pageVars,
                   page_log, organizations, locations, org_to_pr_rows, location_to_pr_rows,
                   spec_to_pr_rows, tele_to_pr_rows, rec_idx, write_idx, fs>>

\* one iteration of `for loc_ref_obj in location_refs:`
ProcessLocation ==
    /\ pc = "resolve"
    /\ stage = "location"
    /\ sub_idx <= Len(Get(CurRecord, "location", <<>>))
    /\ LET loc_ref == Get(Get(CurRecord, "location", <<>>)[sub_idx], "reference", EmptyStr)
       IN  IF startswith(loc_ref, "Location")
           THEN \E o \in ResolveOutcomes(locations, "Location", loc_ref) :
                    /\ locations' = o.cache
                    /\ fetch_log' = o.log
                    /\ location_to_pr_rows' =
                           Append(location_to_pr_rows,
                                  <<pr_url(CurRecord), urljoin(base_url, loc_ref), loc_ref>>)
           ELSE UNCHANGED <<locations, fetch_log, location_to_pr_rows>>
    /\ sub_idx' = sub_idx + 1
    /\ UNCHANGED <<fetchVars, inputVars, mainVars, pc, base_url, output_dir, pageVars,
                   page_log, organizations, practitioners, org_to_pr_rows, p_to_pr_rows,
                   spec_to_pr_rows, tele_to_pr_rows, rec_idx, stage, write_idx, fs>>

\* the codings of all specialties, in order (the two nested loops)
RECURSIVE specialty_codings(_, _)
specialty_codings(specialties, k) ==
    IF k > Len(specialties) THEN <<>>
    ELSE Get(specialties[k], "coding", <<>>) \o specialty_codings(specialties, k + 1)

\* The end of the location loop, the specialties and the telecoms of the
\* record, and the step to the next record or, after the last, to the writes.
ProcessSpecialtyTelecom ==
    /\ pc = "resolve"
    /\ stage = "location"
    /\ sub_idx > Len(Get(CurRecord, "location", <<>>))
    /\ LET codings == specialty_codings(Get(CurRecord, "specialty", <<>>), 1)
           telecoms == Get(CurRecord, "telecom", <<>>)
       IN  /\ spec_to_pr_rows' =
                  spec_to_pr_rows \o
                      [c \in DOMAIN codings |->
                          <<pr_url(CurRecord), Get(codings[c], "code", ""),
                            Get(codings[c], "display", ""), Get(codings[c], "system", "")>>]
           /\ tele_to_pr_rows' =
                  tele_to_pr_rows \o
                      [t \in DOMAIN telecoms |->
                          <<pr_url(CurRecord), Get(telecoms[t], "system", ""),
                            Get(telecoms[t], "value", ""), Get(telecoms[t], "use", "")>>]
    /\ IF rec_idx < Len(all_entries)
       THEN /\ rec_idx' = rec_idx + 1
            /\ stage' = "extension"
            /\ sub_idx' = 1
            /\ UNCHANGED <<pc, write_idx>>
       ELSE /\ pc' = "write"
            /\ write_idx' = 1
            /\ rec_idx' = 0
            /\ stage' = "none"
            /\ sub_idx' = 0
    /\ UNCHANGED <<fetchVars, inputVars, mainVars, base_url, output_dir, pageVars, cacheVars,
                   org_to_pr_rows, location_to_pr_rows, p_to_pr_rows, page_log, fetch_log,
                   fs>>

\* ------------------------------------------------------ process_payer, main

MutNoFailureBoundary(idx) == [mpc |-> "crashed", payer_idx |-> idx]

\* `try: process_payer(...) except Exception as e: print(...)`: where main goes
\* on after process_payer has raised in iteration idx of its loop
except_Exception(idx) == [mpc |-> "loop", payer_idx |-> idx + 1]

\* process_payer returns: main goes on with the next payer
Returns(outcome) ==
    /\ calls' = [calls EXCEPT ![Len(calls)].outcome = outcome]
    /\ payer_idx' = payer_idx + 1
    /\ DropFrame
    /\ UNCHANGED <<run, mpc, payers>>

\* process_payer raises: main's handler takes over
Raises ==
    /\ calls' = [calls EXCEPT ![Len(calls)].outcome = "raised"]
    /\ mpc' = except_Exception(payer_idx).mpc
    /\ payer_idx' = except_Exception(payer_idx).payer_idx
    /\ DropFrame
    /\ UNCHANGED <<run, payers>>

\* os.makedirs(output_dir, exist_ok=True)
MutMakedirsClears(files, dir) == Put(files, dir, EmptyDict)

makedirs(files, dir) == IF dir \in DOMAIN files THEN files ELSE Put(files, dir, EmptyDict)

\* main calls process_payer for the next payer; process_payer runs up to the
\* first page request: the base URL is normalised, the output directory made,
\* and fetch_all_practitioner_roles has set all_entries and next_url.
CallProcessPayer ==
    /\ mpc = "loop"
    /\ pc = "idle"
    /\ payer_idx <= Len(payers)
    /\ calls' = Append(calls, [payer_stub |-> CurPayer.payer_stub, outcome |-> "running"])
    /\ base_url' = normalize_base(CurPayer.payer_provider_directory_fhir_url)
    /\ output_dir' = OutputDir(test_mode, CurPayer.payer_stub)
    /\ fs' = makedirs(fs, output_dir')
    /\ all_entries' = <<>>
    /\ next_url' = urljoin(base_url', <<"PractitionerRole?_count=100">>)
    /\ page_log' = <<>>
    /\ fetch_log' = <<>>
    /\ pc' = "paginate"
    /\ UNCHANGED <<fetchVars, inputVars, run, mpc, payers, payer_idx, cacheVars, rowVars,
                   posVars>>

\* process_payer raises before it has made the output directory (a row of
\* the endpoint file without one of the three columns, or makedirs failing)
SetupRaises ==
    /\ mpc = "loop"
    /\ pc = "idle"
    /\ payer_idx <= Len(payers)
    /\ calls' = Append(calls, [payer_stub |-> CurPayer.payer_stub, outcome |-> "raised"])
    /\ mpc' = except_Exception(payer_idx).mpc
    /\ payer_idx' = except_Exception(payer_idx).payer_idx
    /\ UNCHANGED <<fetchVars, inputVars, run, payers, frameVars, page_log, fetch_log, fs>>

\* `if not practitioner_roles: return`, else the caches and row lists are
\* created empty and the loop over the records begins
AfterPagination ==
    /\ pc = "paged"
    /\ IF all_entries = <<>>
       THEN /\ Returns("no_roles")
       ELSE /\ pc' = "resolve"
            /\ rec_idx' = 1
            /\ stage' = "extension"
            /\ sub_idx' = 1
            /\ UNCHANGED <<mainVars, base_url, output_dir, pageVars, cacheVars, rowVars,
                           write_idx>>
    /\ UNCHANGED <<fetchVars, inputVars, page_log, fetch_log, fs>>

\* An exception other than RequestException leaves process_payer during the
\* pagination or the processing of the records (a body that is not the JSON
\* shape the code reads: AttributeError, TypeError, ValueError).  Between the
\* return of fetch_all_practitioner_roles and the first record nothing raises.
ProcessingRaises ==
    /\ pc \in {"paginate", "resolve"}
    /\ Raises
    /\ UNCHANGED <<fetchVars, inputVars, page_log, fetch_log, fs>>

MutOrgRowsPerReference(k) ==
    CASE k = 1 -> org_to_pr_rows
      [] k = 2 -> [r \in DOMAIN org_to_pr_rows |->
                     LET org_id == Last(org_to_pr_rows[r][3])
                         org_info == extract_organization_info(
                                         Lookup(organizations, org_id, EmptyDict))
                     IN  <<urljoin(base_url, <<"Organization", org_id>>), org_info.name,
                           org_info.type, org_info.address>>]
      [] k = 3 -> location_to_pr_rows
      [] k = 4 -> location_rows(locations, base_url)
      [] k = 5 -> p_to_pr_rows
      [] k = 6 -> spec_to_pr_rows
      [] k = 7 -> tele_to_pr_rows

\* the rows written to the k-th file
TableRows(k) ==
    CASE k = 1 -> org_to_pr_rows
      [] k = 2 -> org_rows(organizations, base_url)
      [] k = 3 -> location_to_pr_rows
      [] k = 4 -> location_rows(locations, base_url)
      [] k = 5 -> p_to_pr_rows
      [] k = 6 -> spec_to_pr_rows
      [] k = 7 -> tele_to_pr_rows

MutWithFileAppends(files, dir, name, file) ==
    IF name \in DOMAIN files[dir]
    THEN Put(files, dir,
             Put(files[dir], name,
                 [header |-> file.header, rows |-> files[dir][name].rows \o file.rows]))
    ELSE Put(files, dir, Put(files[dir], name, file))

\* f'{output_dir}/{name}' holds file
WithFile(files, dir, name, file) == Put(files, dir, Put(files[dir], name, file))

\* one `with open(..., 'w') as f:` block; after the last one process_payer
\* prints its summary and returns
WriteFile ==
    /\ pc = "write"
    /\ fs' = WithFile(fs, output_dir, Tables[write_idx],
                      CsvFile(Fieldnames(write_idx), TableRows(write_idx)))
    /\ IF write_idx < Len(Tables)
       THEN /\ write_idx' = write_idx + 1
            /\ UNCHANGED <<mainVars, pc, base_url, output_dir, pageVars, cacheVars, rowVars,
                           rec_idx, stage, sub_idx>>
       ELSE Returns("completed")
    /\ UNCHANGED <<fetchVars, inputVars, page_log, fetch_log>>

\* a `with open(..., 'w')` block raises OSError: at open (the file is as it
\* was) or at the write (the file is left truncated)
WriteRaises ==
    /\ pc = "write"
    /\ \E opened \in BOOLEAN :
           fs' = IF opened THEN WithFile(fs, output_dir, Tables[write_idx], Truncated)
                 ELSE fs
    /\ Raises
    /\ UNCHANGED <<fetchVars, inputVars, page_log, fetch_log>>

\* main: payers = load_payer_endpoints('good_payer_endpoints.csv')
LoadPayerEndpoints ==
    /\ mpc = "start"
    /\ endpoints.readable
    /\ payers' = endpoints.rows
    /\ payer_idx' = 1
    /\ mpc' = "loop"
    /\ UNCHANGED <<fetchVars, inputVars, run, calls, frameVars, page_log, fetch_log, fs>>

MutLoadRaisesSwallowed ==
    /\ mpc = "start"
    /\ ~endpoints.readable
    /\ payers' = <<>>
    /\ payer_idx' = 1
    /\ mpc' = "loop"
    /\ UNCHANGED <<fetchVars, inputVars, run, calls, frameVars, page_log, fetch_log, fs>>

\* load_payer_endpoints raises, and main with it
LoadRaises ==
    /\ mpc = "start"
    /\ ~endpoints.readable
    /\ mpc' = "crashed"
    /\ UNCHANGED <<fetchVars, inputVars, run, payers, payer_idx, calls, frameVars,
                   page_log, fetch_log, fs>>

\* the loop over the payers is over: main prints and returns
EndMain ==
    /\ mpc = "loop"
    /\ pc = "idle"
    /\ payer_idx > Len(payers)
    /\ mpc' = "done"
    /\ UNCHANGED <<fetchVars, inputVars, run, payers, payer_idx, calls, frameVars,
                   page_log, fetch_log, fs>>

\* The program is started again, on the file system the earlier run left;
\* the upstream of each payer of the endpoint file may have changed meanwhile,
\* the endpoint file may have become unreadable, and --test may be given or
\* not.  What the start before met and left is kept in `earlier`.
StartAgain(worldSet) ==
    /\ mpc \in {"done", "crashed"}
    /\ run < MaxRuns
    /\ run' = run + 1
    /\ earlier' = [ran |-> TRUE, world |-> world, test_mode |-> test_mode, calls |-> calls,
                   page_log |-> page_log, fetch_log |-> fetch_log, fs |-> fs]
    /\ endpoints' \in {endpoints, Unreadable}
    /\ test_mode' \in BOOLEAN
    /\ world' \in {w \in [Stubs -> worldSet \cup {"empty"}] :
                      \A st \in Stubs :
                          (\A k \in DOMAIN endpoints'.rows :
                               endpoints'.rows[k].payer_stub # st) => w[st] = "empty"}
    /\ mpc' = "start"
    /\ payers' = <<>>
    /\ payer_idx' = 0
    /\ calls' = <<>>
    /\ page_log' = <<>>
    /\ fetch_log' = <<>>
    /\ UNCHANGED <<fetchVars, test_limit, frameVars, fs>>

Program ==
    \/ LoadPayerEndpoints
    \/ LoadRaises
    \/ CallProcessPayer
    \/ SetupRaises
    \/ FetchPage
    \/ AfterPagination
    \/ ProcessExtension
    \/ ProcessOrganization
    \/ ProcessPractitioner
    \/ ProcessLocation
    \/ ProcessSpecialtyTelecom
    \/ ProcessingRaises
    \/ WriteFile
    \/ WriteRaises
    \/ EndMain

\* ------------------------------------------------------------ specifications

\* test-mode limits explored by the specifications of the whole program
TestLimits == {2, 100}

\* One start of the program on an endpoint file with one payer (or an
\* unreadable one), the payer's upstream any of Worlds.
Init == InitProgram({Readable(<<Payer("a")>>), Unreadable}, Worlds, BOOLEAN, TestLimits)

Next == Program

Spec == Init /\ [][Next]_vars

\* The program started MaxRuns times on an endpoint file with one payer whose
\* upstream changes between the starts.
RerunWorlds == {"tiny", "empty"}

InitRerun ==
    InitProgram({Readable(<<Payer("a")>>), Unreadable}, RerunWorlds, {FALSE}, {100})

NextRerun == Program \/ StartAgain(RerunWorlds)

SpecRerun == InitRerun /\ [][NextRerun]_vars

\* One start of the program on an endpoint file with three payers.
InitMain ==
    InitProgram({Readable(<<Payer("a"), Payer("b"), Payer("c")>>), Unreadable}, TinyWorlds,
                {FALSE}, {100})

SpecMain == InitMain /\ [][Next]_vars

\* One call of fetch_all_practitioner_roles, at its first page request, for
\* every page chain of PageWorlds, in and out of test mode.
PaginatorLimits == {-1, 0, 1, 2, 3, 100}

InitPaginatorOn(worldSet) ==
    /\ NoFetchCall
    /\ endpoints = Readable(<<Payer("a")>>)
    /\ world \in {w \in [Stubs -> worldSet \cup {"empty"}] :
                     w["b"] = "empty" /\ w["c"] = "empty"}
    /\ test_mode \in BOOLEAN
    /\ test_limit \in PaginatorLimits
    /\ earlier = NoEarlierRun
    /\ run = 1
    /\ mpc = "loop"
    /\ payers = endpoints.rows
    /\ payer_idx = 1
    /\ calls = <<[payer_stub |-> "a", outcome |-> "running"]>>
    /\ pc = "paginate"
    /\ base_url = normalize_base(Payer("a").payer_provider_directory_fhir_url)
    /\ output_dir = OutputDir(test_mode, "a")
    /\ next_url = urljoin(base_url, <<"PractitionerRole?_count=100">>)
    /\ all_entries = <<>>
    /\ page_log = <<>>
    /\ organizations = <<>>
    /\ locations = <<>>
    /\ practitioners = <<>>
    /\ org_to_pr_rows = <<>>
    /\ location_to_pr_rows = <<>>
    /\ p_to_pr_rows = <<>>
    /\ spec_to_pr_rows = <<>>
    /\ tele_to_pr_rows = <<>>
    /\ rec_idx = 0
    /\ stage = "none"
    /\ sub_idx = 0
    /\ write_idx = 0
    /\ fetch_log = <<>>
    /\ fs = makedirs(EmptyDict, output_dir)

InitPaginator == InitPaginatorOn(PageWorlds)

NextPaginator == FetchPage

SpecPaginator == InitPaginator /\ [][NextPaginator]_vars

\* The same call followed for as long as it runs, on the upstreams of
\* LivePageWorlds: the loop `while next_url:` always takes its next iteration,
\* so nothing but the loop's own conditions ends the call.
InitPaginatorLive == InitPaginatorOn(LivePageWorlds)

NextPaginatorLive == FetchPage \/ FetchPageLogFull

SpecPaginatorLive ==
    InitPaginatorLive /\ [][NextPaginatorLive]_vars /\ WF_vars(NextPaginatorLive)

\* ------------------------------------------------------ claims: one fetch

FetchResult == fetch_ret.result

NetOk(k) == fetch_args.net[k].status = "ok"

\* the k-th GET is the first one the network answers with a 2xx
FirstOkAt(k) == NetOk(k) /\ \A j \in 1..(k - 1) : ~NetOk(j)

\* C5: one logical fetch makes at most max_retries GETs, returns the body of
\* the first successful GET at once, and after max_retries failed GETs
\* (non-2xx or transport failures) returns None.
C5_BoundedRetry ==
    fetch_ret.called =>
        LET m == fetch_args.max_retries IN
        /\ FetchResult.attempts <= m
        /\ \A k \in 1..m :
               FirstOkAt(k) =>
                   /\ FetchResult.ret = fetch_args.net[k].json
                   /\ FetchResult.attempts = k
        /\ (\A k \in 1..m : ~NetOk(k)) =>
               /\ FetchResult.ret = None
               /\ FetchResult.attempts = m

\* the default of three attempts is exhausted by an HTTP error and two
\* transport failures, and the call has returned None
C5_Witness ==
    /\ fetch_ret.called
    /\ fetch_args.max_retries = DefaultMaxRetries
    /\ fetch_args.net[1] = HttpError
    /\ fetch_args.net[2] = TransportError
    /\ fetch_args.net[3] = TransportError
    /\ FetchResult.ret = None
    /\ FetchResult.attempts = 3

\* C6: the failed attempt number k (from 0) is followed by a sleep of 2^k
\* seconds exactly when another attempt follows it: the sleeps of a call that
\* made n GETs are 1, 2, ..., 2^(n-2), none after a success and none after
\* the last failure.
C6_Backoff ==
    fetch_ret.called =>
        LET n == FetchResult.attempts
            followed == IF n = 0 THEN 0 ELSE n - 1
        IN  /\ Len(FetchResult.sleeps) = followed
            /\ \A k \in 0..(followed - 1) :
                   /\ ~NetOk(k + 1)
                   /\ FetchResult.sleeps[k + 1] = 2 ^ k

\* fails on attempts 1 and 2, succeeds on attempt 3: two delays, 1 then 2,
\* and the payload is returned
C6_Witness ==
    /\ fetch_ret.called
    /\ fetch_args.max_retries = DefaultMaxRetries
    /\ ~NetOk(1) /\ ~NetOk(2) /\ NetOk(3)
    /\ FetchResult.sleeps = <<1, 2>>
    /\ FetchResult.ret = fetch_args.net[3].json
    /\ Truthy(FetchResult.ret)

\* ------------------------------------------------------ claims: pagination

IsPractitionerRole(resource) == Get(resource, "resourceType", "") = "PractitionerRole"

\* the pages of chain w are linked first to last and only the last has no "next"
IsChain(w) ==
    LET pages == WorldPages(w) IN
    \A k \in 1..Len(pages) : pages[k].next = (IF k < Len(pages) THEN k + 1 ELSE 0)

\* the PractitionerRole resources of pages k.. of chain w, in page order
RECURSIVE RolesFrom(_, _)
RolesFrom(w, k) ==
    IF k > Len(WorldPages(w)) THEN <<>>
    ELSE SelectSeq(WorldPages(w)[k].resources, IsPractitionerRole) \o RolesFrom(w, k + 1)

AllPagesOk == \A k \in 1..Len(page_log) : page_log[k].ok

\* C7: out of test mode, on a chain of k pages of which the first k-1 carry a
\* "next" link, the requests are those of pages 1, 2, ... in order and never
\* more than k; when all of them were answered, the call ends with exactly k
\* requests and returns the PractitionerRole resources of all pages, in page
\* order and within-page order, and no resource of another type.
C7_PaginationComplete ==
    (~test_mode /\ IsChain(CurWorld)) =>
        /\ Len(page_log) <= Len(WorldPages(CurWorld))
        /\ \A k \in 1..Len(page_log) : page_log[k].url = PageUrl(base_url, k)
        /\ (pc = "paged" /\ AllPagesOk) =>
               /\ Len(page_log) = Len(WorldPages(CurWorld))
               /\ all_entries = RolesFrom(CurWorld, 1)

\* three pages were fetched, the first two with a "next" link; three requests
\* were made and the three PractitionerRole resources returned, the two
\* OperationOutcome entries left out
C7_Witness ==
    /\ ~test_mode
    /\ CurWorld = "three"
    /\ pc = "paged"
    /\ AllPagesOk
    /\ Len(page_log) = 3
    /\ all_entries = <<PR1, PR2, PR3>>

\* C8: in test mode, once a page has been fetched and the number of
\* accumulated PractitionerRole records has reached the limit, no further
\* page request is issued.
C8_NoRequestAfterCap ==
    [][(test_mode /\ page_log # <<>> /\ Len(all_entries) >= test_limit)
           => page_log' = page_log]_vars

\* the limit was reached on a page that carries a "next" link, and the call
\* has ended there
C8_Witness ==
    /\ test_mode
    /\ test_limit >= 1
    /\ pc = "paged"
    /\ page_log # <<>>
    /\ AllPagesOk
    /\ Len(page_log) < Len(WorldPages(CurWorld))
    /\ WorldPages(CurWorld)[Len(page_log)].next # 0
    /\ Len(all_entries) >= test_limit

\* ------------------------------------------- claims: the caches and the tables

EntityTypes == {"Organization", "Location", "Practitioner"}

\* the cache of process_payer for an entity type, and the relationship rows
\* that record the reference occurrences of that type
CacheOf(type) ==
    CASE type = "Organization" -> organizations
      [] type = "Location" -> locations
      [] type = "Practitioner" -> practitioners

OccurrenceRows(type) ==
    CASE type = "Organization" -> org_to_pr_rows
      [] type = "Location" -> location_to_pr_rows
      [] type = "Practitioner" -> p_to_pr_rows

\* the positions in the fetch log of the fetches of an id, and of a kind
FetchesOf(type, id) ==
    {k \in DOMAIN fetch_log : fetch_log[k].type = type /\ fetch_log[k].id = id}

FetchedWithData(type) ==
    {fetch_log[k].id : k \in {j \in DOMAIN fetch_log :
                                  fetch_log[j].type = type /\ fetch_log[j].kind = "data"}}

\* the reference occurrences of an id processed so far
OccurrencesOf(type, id) ==
    {r \in DOMAIN OccurrenceRows(type) : Last(OccurrenceRows(type)[r][3]) = id}

ReferencedIds(type) ==
    {Last(OccurrenceRows(type)[r][3]) : r \in DOMAIN OccurrenceRows(type)}

\* C1: within one process_payer run, fetch_fhir_resource is invoked at most
\* once for every entity type and id, however many reference occurrences
\* point to it.
C1_AtMostOneFetchPerId ==
    \A i, j \in DOMAIN fetch_log :
        (fetch_log[i].type = fetch_log[j].type /\ fetch_log[i].id = fetch_log[j].id) => i = j

\* C2: while process_payer resolves references, the ids in a cache are
\* exactly the ids whose fetch returned a payload; an id whose fetches all
\* came back absent (or empty) is not in the cache and has been fetched once
\* for every reference occurrence to it; a fetch that returned a payload is
\* the last fetch of its id.
C2_AbsentNotCached ==
    pc \in {"resolve", "write"} =>
        \A type \in EntityTypes :
            /\ Keys(CacheOf(type)) = FetchedWithData(type)
            /\ \A id \in ReferencedIds(type) :
                   IF id \in FetchedWithData(type)
                   THEN /\ Cardinality(FetchesOf(type, id)) <= Cardinality(OccurrencesOf(type, id))
                        /\ \A k \in FetchesOf(type, id) :
                               fetch_log[k].kind = "data" <=>
                                   (\A j \in FetchesOf(type, id) : j <= k)
                   ELSE Cardinality(FetchesOf(type, id)) = Cardinality(OccurrencesOf(type, id))

\* organization o1 was referenced twice, both fetches exhausted their retries,
\* and the records are processed with o1 not in the cache
C2_Witness ==
    /\ pc = "write"
    /\ "o1" \notin Keys(organizations)
    /\ Cardinality({k \in FetchesOf("Organization", "o1") : fetch_log[k].kind = "absent"}) >= 2

HasFile(dir, name) == dir \in DOMAIN fs /\ name \in DOMAIN fs[dir]

\* the call of process_payer that returned last wrote all its files
Completed == pc = "idle" /\ calls # <<>> /\ Last(calls).outcome = "completed"

LastOutputDir == OutputDir(test_mode, Last(calls).payer_stub)

\* the rows of a file of the payer whose call returned last
RowsOf(name) == fs[LastOutputDir][name].rows

\* the number of rows of the entity file whose id is `id`
RowsWithId(name, id) == Cardinality({r \in DOMAIN RowsOf(name) : Last(RowsOf(name)[r][1]) = id})

\* the ids in the reference column of a relationship file
IdsReferencedIn(name) == {Last(RowsOf(name)[r][3]) : r \in DOMAIN RowsOf(name)}

\* C9: after a completed process_payer run, org.csv has exactly one row for
\* every organization id in the reference column of org_to_pr.csv, and
\* location.csv exactly one row for every location id in the reference
\* column of location_to_pr.csv.
C9_OneRowPerReferencedId ==
    Completed =>
        /\ \A id \in IdsReferencedIn("org_to_pr.csv") : RowsWithId("org.csv", id) = 1
        /\ \A id \in IdsReferencedIn("location_to_pr.csv") : RowsWithId("location.csv", id) = 1

DistinctFirstColumns(rows) ==
    \A i, j \in DOMAIN rows : rows[i][1] = rows[j][1] => i = j

\* C10: org.csv and location.csv never hold two rows for the same id, and
\* after a completed run the number of rows of org.csv (location.csv) is the
\* number of distinct organization (location) ids whose fetch returned a
\* payload in the run.
C10_RowsAreFetchedIds ==
    /\ \A dir \in DOMAIN fs :
           \A name \in {"org.csv", "location.csv"} :
               HasFile(dir, name) => DistinctFirstColumns(fs[dir][name].rows)
    /\ Completed =>
           /\ Len(RowsOf("org.csv")) = Cardinality(FetchedWithData("Organization"))
           /\ Len(RowsOf("location.csv")) = Cardinality(FetchedWithData("Location"))

\* three reference occurrences of organization o1, fetched with a payload,
\* and one row in org.csv
C10_Witness ==
    /\ Completed
    /\ Len(RowsOf("org.csv")) = 1
    /\ Cardinality({r \in DOMAIN RowsOf("org_to_pr.csv") :
                        Last(RowsOf("org_to_pr.csv")[r][3]) = "o1"}) >= 3
    /\ Len(RowsOf("location.csv")) = 2

\* ------------------------------------------------- claims: runs and failures

\* the call of process_payer that came last has returned (not raised)
Returned == pc = "idle" /\ calls # <<>> /\ Last(calls).outcome \in {"completed", "no_roles"}

\* the PractitionerRole records the upstream of a payer holds now, their URLs,
\* and the ids of the entities they refer to
UpstreamRoles(stub) == RolesFrom(world[stub], 1)

UpstreamRoleUrls(stub) ==
    {urljoin(normalize_base(Payer(stub).payer_provider_directory_fhir_url),
             <<"PractitionerRole">> \o Get(UpstreamRoles(stub)[k], "id", EmptyStr)) :
        k \in DOMAIN UpstreamRoles(stub)}

ReferencesOf(pr) ==
    LET extension == Get(pr, "extension", <<>>)
        location == Get(pr, "location", <<>>)
    IN  {Get(Get(extension[k], "valueReference", EmptyDict), "reference", EmptyStr) :
            k \in DOMAIN extension}
        \cup {Get(Get(pr, "organization", EmptyDict), "reference", EmptyStr)}
        \cup {Get(location[k], "reference", EmptyStr) : k \in DOMAIN location}

UpstreamEntityIds(stub) ==
    {Last(ref) : ref \in UNION {ReferencesOf(UpstreamRoles(stub)[k]) :
                                    k \in DOMAIN UpstreamRoles(stub)}}

\* C3: after process_payer has returned for a payer, every row of the payer's
\* output files comes from the upstream as it is in this run: a relationship
\* row belongs to a PractitionerRole the upstream holds, an entity row to an
\* entity such a record refers to; no row of an earlier, larger upstream is left.
C3_FullRebuild ==
    Returned =>
        \A name \in DOMAIN fs[LastOutputDir] :
            \A r \in DOMAIN RowsOf(name) :
                IF name \in {"org.csv", "location.csv"}
                THEN Last(RowsOf(name)[r][1]) \in UpstreamEntityIds(Last(calls).payer_stub)
                ELSE RowsOf(name)[r][1] \in UpstreamRoleUrls(Last(calls).payer_stub)

\* the payer names of a list of payers or of calls
StubsOf(list) == [k \in DOMAIN list |-> list[k].payer_stub]

\* C4: while main is in the loop iteration of one payer, whatever
\* process_payer does there, raising included, leaves the output directory of
\* every other payer as it is; a raise of process_payer never ends main; and
\* when main is done, process_payer has been called for every payer of the
\* list, in list order.
C4_FailureIsolation ==
    /\ [][\A dir \in DOMAIN fs :
              \/ /\ mpc = "loop"
                 /\ payer_idx <= Len(payers)
                 /\ dir = OutputDir(test_mode, CurPayer.payer_stub)
              \/ /\ dir \in DOMAIN fs'
                 /\ fs'[dir] = fs[dir]]_vars
    /\ [](endpoints.readable => mpc # "crashed")
    /\ [](mpc = "done" => StubsOf(calls) = StubsOf(payers))

\* payer a completed and its files hold rows, process_payer raised for payer b
\* after it had written a first file, payer c completed after that
C4_Witness ==
    /\ mpc = "done"
    /\ Len(calls) = 3
    /\ calls[1] = [payer_stub |-> "a", outcome |-> "completed"]
    /\ calls[2] = [payer_stub |-> "b", outcome |-> "raised"]
    /\ calls[3] = [payer_stub |-> "c", outcome |-> "completed"]
    /\ fs[OutputDir(test_mode, "a")]["org_to_pr.csv"].rows # <<>>
    /\ HasFile(OutputDir(test_mode, "b"), "org_to_pr.csv")
    /\ ~HasFile(OutputDir(test_mode, "b"), "tele_to_pr.csv")
    /\ fs[OutputDir(test_mode, "c")]["org_to_pr.csv"].rows # <<>>

\* ------------------------------------------------- claims: the written tables

RelationshipFiles ==
    {"org_to_pr.csv", "location_to_pr.csv", "p_to_pr.csv", "spec_to_pr.csv", "tele_to_pr.csv"}

\* base_url + 'PractitionerRole/' + id for the records the Paginator returned
\* to the running call of process_payer
ReturnedRoleUrls ==
    {Front(base_url) \o <<"PractitionerRole">> \o Get(all_entries[k], "id", EmptyStr) :
        k \in DOMAIN all_entries}

FirstColumnsReturned(rows) ==
    \A r \in DOMAIN rows :
        /\ rows[r][1] # <<>>
        /\ rows[r][1] # EmptyStr
        /\ rows[r][1] \in ReturnedRoleUrls

\* what a step of process_payer leaves in the row lists and the files
RowsKeepIntegrity ==
    pc \in {"resolve", "write"} =>
        /\ FirstColumnsReturned(org_to_pr_rows')
        /\ FirstColumnsReturned(location_to_pr_rows')
        /\ FirstColumnsReturned(p_to_pr_rows')
        /\ FirstColumnsReturned(spec_to_pr_rows')
        /\ FirstColumnsReturned(tele_to_pr_rows')
        /\ \A name \in RelationshipFiles :
               name \in DOMAIN fs'[output_dir] =>
                   FirstColumnsReturned(fs'[output_dir][name].rows)

\* C11: whatever a step of process_payer leaves in the five relationship row
\* lists and in the relationship files of its output directory, every row
\* has a non-empty first column that is the PractitionerRole URL of a record
\* the Paginator returned to this call.
C11_ReferentialIntegrity == [][RowsKeepIntegrity]_vars

\* a completed run over three records whose five relationship files all hold rows
C11_Witness ==
    /\ Completed
    /\ \A name \in RelationshipFiles : RowsOf(name) # <<>>
    /\ Cardinality({RowsOf("org_to_pr.csv")[r][1] : r \in DOMAIN RowsOf("org_to_pr.csv")}) = 3

\* C12: after process_payer has returned, the payer's output directory holds
\* every one of the output files, each beginning with the header row of its
\* fieldnames, also the files of tables without rows.
C12_AllFilesWithHeader ==
    Returned =>
        \A k \in DOMAIN Tables :
            /\ HasFile(LastOutputDir, Tables[k])
            /\ fs[LastOutputDir][Tables[k]].header = Fieldnames(k)

\* the step that ends process_payer in its write phase leaves either all
\* files with this run's rows or, the directory having been empty at the
\* start of the run, no file at all
WritePhaseEndsAllOrNothing ==
    (pc = "write" /\ pc' = "idle") =>
        \/ \A k \in DOMAIN Tables :
               /\ Tables[k] \in DOMAIN fs'[output_dir]
               /\ fs'[output_dir][Tables[k]].rows = TableRows(k)
        \/ fs'[output_dir] = EmptyDict

\* C13: the files of a payer are overwritten atomically: whenever
\* process_payer ends in its write phase, by returning or by raising, either
\* all of the payer's files hold this run's rows or none has been modified.
C13_AtomicOverwrite == [][WritePhaseEndsAllOrNothing]_vars

\* ------------------------------------------------- claims: failures

\* the PractitionerRole resources of pages 1..n of chain w, in page order
RECURSIVE RolesUpTo(_, _)
RolesUpTo(w, n) ==
    IF n = 0 THEN <<>>
    ELSE RolesUpTo(w, n - 1) \o SelectSeq(WorldPages(w)[n].resources, IsPractitionerRole)

\* the page request made last came back absent
LastPageAbsent == page_log # <<>> /\ ~Last(page_log).ok

\* after an absent page the loop is over, and what was accumulated is what
\* the pages before it held
AbsentPageEndsLoop ==
    LastPageAbsent =>
        /\ pc # "paginate"
        /\ \A k \in 1..(Len(page_log) - 1) : page_log[k].ok
        /\ pc \in {"paged", "resolve", "write"} =>
               all_entries = RolesUpTo(CurWorld, Len(page_log) - 1)

\* no page request follows an absent page; process_payer goes on from the
\* end of the pagination with the list as it is, or returns when it is empty
GoesOnAfterPagination ==
    /\ LastPageAbsent => page_log' = page_log
    /\ pc = "paged" =>
           IF all_entries # <<>>
           THEN pc' = "resolve" /\ all_entries' = all_entries /\ calls' = calls
           ELSE pc' = "idle" /\ Last(calls').outcome = "no_roles"

\* C14: when a page fetch returns absent, at whatever position of the chain,
\* no further page is requested and the records of the pages fetched before
\* it are what fetch_all_practitioner_roles returns; process_payer goes on
\* with that list (returning early when it is empty) and does not raise.
C14_AbsentPageStops == []AbsentPageEndsLoop /\ [][GoesOnAfterPagination]_vars

\* the second page could not be fetched; the two records of the first page
\* were processed and the run completed
C14_Witness ==
    /\ Completed
    /\ Len(page_log) = 2
    /\ page_log[1].ok
    /\ ~page_log[2].ok
    /\ Len(RowsOf("tele_to_pr.csv")) = 2

\* with the endpoint file unreadable main is at its start or has ended with
\* the error, and process_payer has not been called
NothingRunsUnreadable ==
    ~endpoints.readable =>
        /\ mpc \in {"start", "crashed"}
        /\ calls = <<>>
        /\ pc = "idle"

\* within a run with the endpoint file unreadable, the step from the start
\* ends main with the error, and no step touches the file system
UnreadableIsFatal ==
    (~endpoints.readable /\ run' = run) =>
        /\ fs' = fs
        /\ mpc = "start" => mpc' = "crashed"

\* C15: when load_payer_endpoints raises on a missing or unreadable endpoint
\* file, main ends with that error, process_payer is called for no payer and
\* no output file is created or modified.
C15_UnreadableIsFatal == []NothingRunsUnreadable /\ [][UnreadableIsFatal]_vars

\* the second start found the endpoint file unreadable and ended with the
\* error; the files the first start wrote are there, rows included
C15_Witness ==
    /\ run = 2
    /\ ~endpoints.readable
    /\ mpc = "crashed"
    /\ HasFile(OutputDir(test_mode, "a"), "tele_to_pr.csv")
    /\ fs[OutputDir(test_mode, "a")]["org_to_pr.csv"].rows # <<>>

\* ------------------------------------------------- claims: references

\* the reference process_payer looks at next and the type it expects there;
\* no reference (type "") at an extension that is not a network reference
NextReference ==
    LET extension == Get(CurRecord, "extension", <<>>)
        location == Get(CurRecord, "location", <<>>)
    IN  IF stage = "extension" /\ sub_idx <= Len(extension)
        THEN IF Get(extension[sub_idx], "url", "") = NetworkReferenceUrl
             THEN [type |-> "Organization",
                   ref |-> Get(Get(extension[sub_idx], "valueReference", EmptyDict),
                               "reference", EmptyStr)]
             ELSE [type |-> "", ref |-> EmptyStr]
        ELSE IF stage = "extension"
        THEN [type |-> "Organization",
              ref |-> Get(Get(CurRecord, "organization", EmptyDict), "reference", EmptyStr)]
        ELSE IF stage = "practitioner"
        THEN [type |-> "Practitioner",
              ref |-> Get(Get(CurRecord, "practitioner", EmptyDict), "reference", EmptyStr)]
        ELSE IF sub_idx <= Len(location)
        THEN [type |-> "Location", ref |-> Get(location[sub_idx], "reference", EmptyStr)]
        ELSE [type |-> "", ref |-> EmptyStr]

\* a reference string that is not '<type>/...'
Malformed(ref, type) == Len(ref) < 2 \/ ref[1] # type

\* the part of a fetched URL after the base URL
PathOf(url) == SubSeq(url, Len(base_url), Len(url))

\* every relationship row, every fetch and every cache entry belongs to a
\* reference of the type of its table
OnlyWellFormedReferences ==
    pc \in {"resolve", "write"} =>
        /\ \A type \in EntityTypes :
               /\ \A r \in DOMAIN OccurrenceRows(type) :
                      ~Malformed(OccurrenceRows(type)[r][3], type)
               /\ Keys(CacheOf(type)) \subseteq ReferencedIds(type)
        /\ \A k \in DOMAIN fetch_log :
               /\ fetch_log[k].type \in EntityTypes
               /\ ~Malformed(PathOf(fetch_log[k].url), fetch_log[k].type)
               /\ \E r \in DOMAIN OccurrenceRows(fetch_log[k].type) :
                      OccurrenceRows(fetch_log[k].type)[r][2] = fetch_log[k].url

\* the step over a malformed reference, unless an exception of another cause
\* ends the call there: nothing fetched, cached or emitted, and on to the
\* rest of the record
MalformedIsSkipped ==
    (/\ pc = "resolve"
     /\ NextReference.type # ""
     /\ Malformed(NextReference.ref, NextReference.type)
     /\ pc' # "idle") =>
        /\ pc' = "resolve"
        /\ fetch_log' = fetch_log
        /\ UNCHANGED <<cacheVars, rowVars>>
        /\ <<rec_idx, stage, sub_idx>>' # <<rec_idx, stage, sub_idx>>
        /\ rec_idx' = rec_idx

\* C16: an organization, practitioner or location reference that does not
\* start with the prefix of its type triggers no fetch, adds no cache entry
\* and no row to any table, and the processing of the record goes on.
C16_MalformedSkipped == []OnlyWellFormedReferences /\ [][MalformedIsSkipped]_vars

RowsOfRole(name, id) ==
    {r \in DOMAIN RowsOf(name) : Last(RowsOf(name)[r][1]) = id}

\* record pr3 (organization 'Group/g1', practitioner 'PractitionerRole/p1',
\* locations 'Location/l1' and 'Organization/o1') was processed to the end:
\* one location row, one organization row (from its extension), no
\* practitioner row, and g1 was never fetched
C16_Witness ==
    /\ Completed
    /\ Cardinality(RowsOfRole("location_to_pr.csv", "pr3")) = 1
    /\ Cardinality(RowsOfRole("org_to_pr.csv", "pr3")) = 1
    /\ RowsOfRole("p_to_pr.csv", "pr3") = {}
    /\ RowsOfRole("p_to_pr.csv", "pr1") # {}
    /\ \A k \in DOMAIN fetch_log : fetch_log[k].id # "g1"

\* base_url + 'PractitionerRole/' + id of the record being processed
CurRoleUrl == Front(base_url) \o <<"PractitionerRole">> \o Get(CurRecord, "id", EmptyStr)

\* a step in which a fetch of a referenced entity came back absent: the call
\* goes on, and the relationship row of the reference is appended, for a
\* practitioner with npi "0", is_npi_invalid "?" and empty names
AbsentEntityKeepsRow ==
    (/\ pc = "resolve"
     /\ Len(fetch_log') = Len(fetch_log) + 1
     /\ Last(fetch_log').kind = "absent") =>
        LET e == Last(fetch_log')
            ref == PathOf(e.url)
        IN  /\ pc' = "resolve"
            /\ calls' = calls
            /\ e.type = "Practitioner" =>
                   p_to_pr_rows' =
                       Append(p_to_pr_rows, <<CurRoleUrl, e.url, ref, "0", "?", "", <<>>>>)
            /\ e.type = "Organization" =>
                   org_to_pr_rows' = Append(org_to_pr_rows, <<CurRoleUrl, e.url, ref>>)
            /\ e.type = "Location" =>
                   location_to_pr_rows' = Append(location_to_pr_rows, <<CurRoleUrl, e.url, ref>>)

\* C17: when the fetch of a referenced practitioner returns absent the
\* p_to_pr row of the record is still emitted, with npi "0", is_npi_invalid
\* "?" and empty family and given names; when the fetch of a referenced
\* organization or location returns absent its relationship row is still
\* emitted; the step raises no error.
C17_MissingEntityKeepsRecord == [][AbsentEntityKeepsRow]_vars

\* a completed run in which the practitioner, an organization and a location
\* could not be fetched, with the rows of the three references in the files
C17_Witness ==
    /\ Completed
    /\ \A type \in EntityTypes :
           \E k \in DOMAIN fetch_log : fetch_log[k].type = type /\ fetch_log[k].kind = "absent"
    /\ \E r \in DOMAIN RowsOf("p_to_pr.csv") :
           /\ RowsOf("p_to_pr.csv")[r][4] = "0"
           /\ RowsOf("p_to_pr.csv")[r][5] = "?"
           /\ RowsOf("p_to_pr.csv")[r][6] = ""
           /\ RowsOf("p_to_pr.csv")[r][7] = <<>>
    /\ RowsOf("org_to_pr.csv") # <<>>
    /\ RowsOf("location_to_pr.csv") # <<>>

\* C18: after a completed run no two rows of p_to_pr.csv have the same
\* practitioner_role_fhir_url.
C18_OnePractitionerRowPerRole == Completed => DistinctFirstColumns(RowsOf("p_to_pr.csv"))

HasPractitioner(pr) ==
    ~Malformed(Get(Get(pr, "practitioner", EmptyDict), "reference", EmptyStr), "Practitioner")

\* the records of the running call hold two practitioner relationships of
\* the same PractitionerRole
TwoPractitionersForOneRole ==
    \E i, j \in DOMAIN all_entries :
        /\ i < j
        /\ Get(all_entries[i], "id", EmptyStr) = Get(all_entries[j], "id", EmptyStr)
        /\ HasPractitioner(all_entries[i])
        /\ HasPractitioner(all_entries[j])

\* a call of process_payer over such records ends by raising
IntegrityViolationRaises ==
    (pc \in {"resolve", "write"} /\ TwoPractitionersForOneRole /\ pc' = "idle") =>
        Last(calls').outcome = "raised"

\* C19: when the records of a run exhibit more than one practitioner
\* relationship for the same PractitionerRole, process_payer raises instead
\* of writing or dropping the extra relationship.
C19_IntegrityViolationRaises == [][IntegrityViolationRaises]_vars

\* ------------------------------------------------- claims: cache scope

\* the base URL of the payer of the call that came last
LastBaseUrl == normalize_base(Payer(Last(calls).payer_stub).payer_provider_directory_fhir_url)

\* C20: every call of process_payer starts with empty organization, location
\* and practitioner caches: what its caches hold it has fetched itself, from
\* its own payer's server, so an id fetched for an earlier payer is fetched
\* again at its first reference for the next payer; and the rows of the
\* entity files of a completed call are the entities that call fetched,
\* under that payer's base URL.
C20_CachesPerPayer ==
    /\ pc \in {"paginate", "paged"} =>
           organizations = <<>> /\ locations = <<>> /\ practitioners = <<>>
    /\ pc \in {"resolve", "write"} =>
           /\ \A type \in EntityTypes :
                  /\ Keys(CacheOf(type)) = FetchedWithData(type)
                  /\ \A id \in ReferencedIds(type) : FetchesOf(type, id) # {}
           /\ \A k \in DOMAIN fetch_log :
                  SubSeq(fetch_log[k].url, 1, Len(base_url) - 1) = Front(base_url)
    /\ Completed =>
           /\ {RowsOf("org.csv")[r][1] : r \in DOMAIN RowsOf("org.csv")} =
                  {Front(LastBaseUrl) \o <<"Organization", id>> :
                      id \in FetchedWithData("Organization")}
           /\ {RowsOf("location.csv")[r][1] : r \in DOMAIN RowsOf("location.csv")} =
                  {Front(LastBaseUrl) \o <<"Location", id>> : id \in FetchedWithData("Location")}

\* payer a completed with organization o1 in its org.csv; in the call for
\* payer b organization o1 was fetched again, from b's server
C20_Witness ==
    /\ pc = "write"
    /\ Len(calls) = 2
    /\ calls[1] = [payer_stub |-> "a", outcome |-> "completed"]
    /\ Len(fs[OutputDir(test_mode, "a")]["org.csv"].rows) = 1
    /\ \E k \in DOMAIN fetch_log :
           /\ fetch_log[k].id = "o1"
           /\ fetch_log[k].kind = "data"
           /\ fetch_log[k].url = Front(LastBaseUrl) \o <<"Organization", "o1">>
    /\ "o1" \in Keys(organizations)

\* ------------------------------------------------- claims: output roots

\* the root directory a run writes under, and the root it must leave alone
OwnRoot == IF test_mode THEN "payer_slurp_test_results" ELSE "payer_slurp_results"

\* a step of a run creates directories only under the run's own root and
\* leaves every directory under the other root, with its files, as it is
OtherRootUntouched ==
    /\ \A dir \in DOMAIN fs :
           dir[1] # OwnRoot => (dir \in DOMAIN fs' /\ fs'[dir] = fs[dir])
    /\ \A dir \in DOMAIN fs' :
           dir[1] # OwnRoot => dir \in DOMAIN fs

\* C21: a run with test_mode set creates or modifies files only under
\* payer_slurp_test_results/<stub> and leaves everything under
\* payer_slurp_results/ unchanged; a run without test_mode writes only under
\* payer_slurp_results/<stub> and leaves the test root unchanged.
C21_SeparateRoots == [][OtherRootUntouched]_vars

\* a production run wrote its files, then a run with --test completed and
\* wrote its own under the test root
C21_Witness ==
    /\ run = 2
    /\ test_mode
    /\ ~earlier.test_mode
    /\ Completed
    /\ HasFile(<<"payer_slurp_results", "a">>, "tele_to_pr.csv")
    /\ fs[<<"payer_slurp_results", "a">>] = earlier.fs[<<"payer_slurp_results", "a">>]
    /\ HasFile(<<"payer_slurp_test_results", "a">>, "tele_to_pr.csv")
    /\ fs[<<"payer_slurp_test_results", "a">>]["org_to_pr.csv"].rows # <<>>

\* ------------------------------------------------- claims: repeated runs

\* the call of process_payer of the start before returned, and the call of
\* this start met the same upstream with the same mode and had the same page
\* and entity fetches with the same outcomes
SameRunAsEarlier ==
    /\ earlier.ran
    /\ earlier.calls # <<>>
    /\ Last(earlier.calls).outcome \in {"completed", "no_roles"}
    /\ Last(earlier.calls).payer_stub = Last(calls).payer_stub
    /\ world = earlier.world
    /\ test_mode = earlier.test_mode
    /\ page_log = earlier.page_log
    /\ fetch_log = earlier.fetch_log

\* C22: when process_payer has run twice for a payer against an unchanged
\* upstream with the same fetch outcomes, the payer's files after the second
\* run hold the rows they held after the first: the same rows in every file,
\* none added, none lost.
C22_OverwriteIdempotent ==
    (Returned /\ SameRunAsEarlier) => fs[LastOutputDir] = earlier.fs[LastOutputDir]

\* two completed runs over the same record, both with organization o1 fetched
C22_Witness ==
    /\ run = 2
    /\ Completed
    /\ SameRunAsEarlier
    /\ fetch_log # <<>>
    /\ Len(RowsOf("org_to_pr.csv")) = 1
    /\ Len(RowsOf("org.csv")) = 1

\* ------------------------------------------------- claims: organization rows

ExtensionReference(ext) ==
    Get(Get(ext, "valueReference", EmptyDict), "reference", EmptyStr)

\* a network-reference extension entry with a well-formed organization reference
IsNetworkOrgReference(ext) ==
    /\ Get(ext, "url", "") = NetworkReferenceUrl
    /\ ~Malformed(ExtensionReference(ext), "Organization")

\* the well-formed organization reference occurrences of a record, in the
\* order of the record: the extension entries, then the organization field
OrgOccurrences(pr) ==
    LET hits == SelectSeq(Get(pr, "extension", <<>>), IsNetworkOrgReference)
        direct == Get(Get(pr, "organization", EmptyDict), "reference", EmptyStr)
    IN  [k \in DOMAIN hits |-> ExtensionReference(hits[k])]
            \o (IF ~Malformed(direct, "Organization") THEN <<direct>> ELSE <<>>)

\* ... of the records k.. the Paginator returned
RECURSIVE OrgOccurrencesFrom(_)
OrgOccurrencesFrom(k) ==
    IF k > Len(all_entries) THEN <<>>
    ELSE OrgOccurrences(all_entries[k]) \o OrgOccurrencesFrom(k + 1)

\* C23: when all records are processed, org_to_pr has one row for every
\* well-formed 'Organization/...' reference occurrence of the records, the
\* network-reference extension entries and the organization field counted
\* separately, in the order of the occurrences, whether the organization was
\* fetched, served from the cache or unavailable; these rows are what
\* org_to_pr.csv gets.
C23_RowPerOccurrence ==
    pc = "write" =>
        /\ Len(org_to_pr_rows) = Len(OrgOccurrencesFrom(1))
        /\ \A r \in DOMAIN org_to_pr_rows : org_to_pr_rows[r][3] = OrgOccurrencesFrom(1)[r]
        /\ write_idx > 1 => fs[output_dir]["org_to_pr.csv"].rows = org_to_pr_rows

\* three records with four occurrences, three of them of organization o1:
\* fetched once with a payload, then served from the cache
C23_Witness ==
    /\ pc = "write"
    /\ write_idx > 1
    /\ Len(all_entries) = 3
    /\ Len(fs[output_dir]["org_to_pr.csv"].rows) = 4
    /\ Cardinality(FetchesOf("Organization", "o1")) = 1
    /\ "o1" \in Keys(organizations)
    /\ org_to_pr_rows[1][1] = org_to_pr_rows[2][1]

\* ------------------------------------------------------------- claims: NPI

\* the identifier list the function scans, empty when the key is missing
NpiIdentifiers == Get(npi_arg, "identifier", <<>>)

HasNpiCoding(identifier) ==
    /\ "type" \in DOMAIN identifier
    /\ "coding" \in DOMAIN identifier.type
    /\ \E c \in DOMAIN identifier.type.coding : identifier.type.coding[c] = [code |-> "NPI"]

\* positions of the identifiers with a type coding of code "NPI"
NpiPositions == {k \in DOMAIN NpiIdentifiers : HasNpiCoding(NpiIdentifiers[k])}

FirstNpiPosition == CHOOSE k \in NpiPositions : \A j \in NpiPositions : k <= j

\* C24: extract_npi_from_practitioner returns "0" for an absent or empty
\* practitioner, for one without identifiers and for one none of whose
\* identifiers has a type coding with code "NPI"; otherwise it returns the
\* value of the first identifier, in list order, that has such a coding ("0"
\* when that identifier carries no value).
C24_NpiExtraction ==
    npi_ret.called =>
        IF ~Truthy(npi_arg) \/ NpiPositions = {}
        THEN npi_ret.result = "0"
        ELSE npi_ret.result = Get(NpiIdentifiers[FirstNpiPosition], "value", "0")

\* the NPI identifier is third in the list, behind two without the coding,
\* and its NPI coding is the second of its type
C24_Witness ==
    /\ npi_ret.called
    /\ Len(NpiIdentifiers) = 3
    /\ NpiPositions = {3}
    /\ Len(NpiIdentifiers[3].type.coding) = 2
    /\ npi_ret.result = "1555555555"

\* ----------------------------------------------------- claims: termination

\* C25: every call of fetch_all_practitioner_roles eventually stops
\* requesting pages and returns, whatever the "next" links of the upstream's
\* pages point at and whichever fetches succeed.
C25_PaginationTerminates == <>(pc = "paged")

\* ------------------------------------------------ claims: the test-mode cap

\* a call in test mode on a page chain has returned, every page answered
CappedCallReturned ==
    /\ test_mode
    /\ IsChain(CurWorld)
    /\ pc = "paged"
    /\ page_log # <<>>
    /\ AllPagesOk

\* C26 as stated: the cap is looked at once per page, after the page, so the
\* call returns all PractitionerRole entries of every page it requested, the
\* page on which the cap is reached included.
C26_CapCheckedPerPage ==
    CappedCallReturned => all_entries = RolesUpTo(CurWorld, Len(page_log))

\* C26, amended: in test mode the cap is checked after every accumulated
\* PractitionerRole entry and again after the page. What is accumulated is
\* always a prefix of the upstream's PractitionerRole entries in page order;
\* with a cap of 1 or more the call returns exactly the first cap entries (all
\* of them when the upstream has fewer), so the entries of the page behind the
\* one that reaches the cap are not accumulated; with a cap below 1 it
\* returns at most one entry.
C26_CapCheckedPerEntry ==
    (test_mode /\ IsChain(CurWorld)) =>
        LET upstream == RolesFrom(CurWorld, 1) IN
        /\ Len(all_entries) <= Len(upstream)
        /\ all_entries = SubSeq(upstream, 1, Len(all_entries))
        /\ Len(all_entries) <= (IF test_limit >= 1 THEN test_limit ELSE 1)
        /\ (CappedCallReturned /\ test_limit >= 1) =>
               Len(all_entries) = (IF test_limit <= Len(upstream) THEN test_limit
                                   ELSE Len(upstream))

\* the cap was reached on the first of two PractitionerRole entries of a page:
\* the second is left out although its page was fetched
C26_Witness ==
    /\ CappedCallReturned
    /\ test_limit = 1
    /\ Len(page_log) = 1
    /\ Len(RolesUpTo(CurWorld, 1)) = 2
    /\ all_entries = <<RolesUpTo(CurWorld, 1)[1]>>

\* C27: in test mode the call never holds, and so never returns, more
\* records than test_limit, for every integer --limit passes on: none at all
\* for a limit of 0 or less.
C27_NeverMoreThanLimit ==
    test_mode => Len(all_entries) <= (IF test_limit >= 0 THEN test_limit ELSE 0)

\* ------------------------------------------- claims: nothing written early

\* process_payer raises out of the pagination or out of the loop over the records
RaisesBeforeWriting ==
    /\ pc \in {"paginate", "resolve"}
    /\ pc' = "idle"
    /\ Last(calls').outcome = "raised"

\* a step outside the write phase leaves every file of every existing
\* directory as it is; a raise before the write phase leaves the payer's
\* directory as the earlier start of the program left it
KeepsFilesBeforeWriting ==
    /\ pc # "write" => \A dir \in DOMAIN fs : dir \in DOMAIN fs' /\ fs'[dir] = fs[dir]
    /\ (RaisesBeforeWriting /\ earlier.ran /\ output_dir \in DOMAIN earlier.fs) =>
           fs'[output_dir] = earlier.fs[output_dir]

ColumnOf(name, col) == {RowsOf(name)[r][col] : r \in DOMAIN RowsOf(name)}

\* the URLs the run fetched an entity of the type from, with a payload
FetchedUrls(type) ==
    {fetch_log[k].url : k \in {j \in DOMAIN fetch_log :
                                   fetch_log[j].type = type /\ fetch_log[j].kind = "data"}}

\* C29: after a completed run every organization_fhir_url of org.csv is the
\* organization_fhir_url of a row of org_to_pr.csv and the URL the
\* organization was fetched from, and every location_fhir_url of location.csv
\* is the location_fhir_url of a row of location_to_pr.csv, also for
\* references with more than one '/' behind the type.
C29_EntityUrlsAgree ==
    Completed =>
        /\ ColumnOf("org.csv", 1) \subseteq ColumnOf("org_to_pr.csv", 2)
        /\ ColumnOf("org.csv", 1) \subseteq FetchedUrls("Organization")
        /\ ColumnOf("location.csv", 1) \subseteq ColumnOf("location_to_pr.csv", 2)

====
